---- MODULE Spec2Model ----
(***************************************************************************)
(* Model of the India-Pakistan news dashboard: the Express server          *)
(* (categorizeArticle, isPriorityArticle, calculateAnalytics,              *)
(* assessCrisisLevel, the /api/news handler with its newsCache) and the    *)
(* pure functions of the annotation pipeline.                              *)
(*                                                                         *)
(* JavaScript strings are sequences of one-character strings; a missing    *)
(* (undefined) string field is the one-element sequence Undefined, which   *)
(* no text equals.                                                         *)
(***************************************************************************)
EXTENDS Integers, Sequences, FiniteSets, TLC

(* ----------------------------- bounds ---------------------------------- *)

\* longest text, in vocabulary words, given to the text functions
MaxWords == 2

\* the sentiment scores handed to isPriorityArticle are -MaxNegative..MaxScore
MaxNegative == 5

MaxScore == 1

\* number of /api/news requests
MaxRequests == 2

\* longest article list given to the pipeline taken alone
MaxArticles == 3

\* most negative military and negative diplomatic articles given to
\* assessCrisisLevel
MaxMilitary == 6

MaxDiplomatic == 8

\* calls of fetchNews in flight at one time in the client
MaxInFlight == 2

\* refreshes from which an article of one url may be bookmarked
MaxEditions == 2

(* ------------------------- JavaScript strings -------------------------- *)

Undefined == << "<undefined>" >>

UpperChars ==
   << "A","B","C","D","E","F","G","H","I","J","K","L","M",
      "N","O","P","Q","R","S","T","U","V","W","X","Y","Z" >>

LowerChars ==
   << "a","b","c","d","e","f","g","h","i","j","k","l","m",
      "n","o","p","q","r","s","t","u","v","w","x","y","z" >>

\* String.prototype.toLowerCase on one character
toLowerChar(c) ==
   IF \E i \in 1..Len(UpperChars) : UpperChars[i] = c
   THEN LowerChars[CHOOSE i \in 1..Len(UpperChars) : UpperChars[i] = c]
   ELSE c

\* toLowerChar, tabulated for the upper-case letters
lowerOf == [c \in { UpperChars[i] : i \in 1..Len(UpperChars) } |-> toLowerChar(c)]

\* String.prototype.toLowerCase
toLowerCase(s) ==
   [i \in 1..Len(s) |-> IF s[i] \in DOMAIN lowerOf THEN lowerOf[s[i]] ELSE s[i]]

\* ToString of a string-or-undefined operand of `+`
JSString(v) == IF v = Undefined THEN <<"u","n","d","e","f","i","n","e","d">> ELSE v

\* String.prototype.match with a global regex: the number of matches found
\* scanning left to right, each scan resuming after the previous match
RECURSIVE matchCountFrom(_, _, _)
matchCountFrom(keyword, s, i) ==
   IF i + Len(keyword) - 1 > Len(s) THEN 0
   ELSE IF SubSeq(s, i, i + Len(keyword) - 1) = keyword
        THEN 1 + matchCountFrom(keyword, s, i + Len(keyword))
        ELSE matchCountFrom(keyword, s, i + 1)

\* text.match(new RegExp(keyword, 'gi')): with flag i letters compare
\* case-insensitively
matchCount(keyword, s) == matchCountFrom(toLowerCase(keyword), toLowerCase(s), 1)

\* String.prototype.includes (case-sensitive)
includes(s, keyword) ==
   \E i \in 1..(Len(s) - Len(keyword) + 1) : SubSeq(s, i, i + Len(keyword) - 1) = keyword

(* ---------------------------- the lexicon ------------------------------ *)

militaryKeywords ==
   << <<"m","i","l","i","t","a","r","y">>,
      <<"a","r","m","y">>,
      <<"d","e","f","e","n","s","e">>,
      <<"w","e","a","p","o","n","s">>,
      <<"t","r","o","o","p","s">>,
      <<"s","o","l","d","i","e","r">>,
      <<"w","a","r">>,
      <<"c","o","m","b","a","t">>,
      <<"a","t","t","a","c","k">>,
      <<"m","i","s","s","i","l","e">>,
      <<"s","e","c","u","r","i","t","y"," ","f","o","r","c","e">>,
      <<"b","o","r","d","e","r">>,
      <<"t","e","r","r","o","r","i","s","t">>,
      <<"a","i","r","f","o","r","c","e">>,
      <<"n","a","v","y">>,
      <<"a","r","t","i","l","l","e","r","y">>,
      <<"c","e","a","s","e","f","i","r","e">> >>

diplomaticKeywords ==
   << <<"d","i","p","l","o","m","a","t","i","c">>,
      <<"t","a","l","k","s">>,
      <<"e","m","b","a","s","s","y">>,
      <<"m","i","n","i","s","t","e","r">>,
      <<"p","e","a","c","e">>,
      <<"t","r","e","a","t","y">>,
      <<"n","e","g","o","t","i","a","t","e">>,
      <<"r","e","l","a","t","i","o","n">>,
      <<"d","i","a","l","o","g","u","e">>,
      <<"s","u","m","m","i","t">>,
      <<"d","e","l","e","g","a","t","i","o","n">>,
      <<"d","i","p","l","o","m","a","t">>,
      <<"f","o","r","e","i","g","n">>,
      <<"a","g","r","e","e","m","e","n","t">>,
      <<"b","i","l","a","t","e","r","a","l">>,
      <<"c","o","o","p","e","r","a","t","i","o","n">> >>

economicKeywords ==
   << <<"t","r","a","d","e">>,
      <<"s","a","n","c","t","i","o","n","s">>,
      <<"e","c","o","n","o","m","y">>,
      <<"b","u","s","i","n","e","s","s">>,
      <<"m","a","r","k","e","t">>,
      <<"e","x","p","o","r","t">>,
      <<"i","m","p","o","r","t">>,
      <<"i","n","v","e","s","t","m","e","n","t">>,
      <<"e","c","o","n","o","m","i","c">>,
      <<"f","i","n","a","n","c","e">>,
      <<"c","o","m","m","e","r","c","e">>,
      <<"t","a","r","i","f","f">>,
      <<"s","t","o","c","k">>,
      <<"c","u","r","r","e","n","c","y">>,
      <<"i","n","f","l","a","t","i","o","n">>,
      <<"g","d","p">>,
      <<"f","i","s","c","a","l">> >>

socialKeywords ==
   << <<"c","u","l","t","u","r","a","l">>,
      <<"p","e","o","p","l","e">>,
      <<"s","o","c","i","e","t","y">>,
      <<"c","i","v","i","l","i","a","n">>,
      <<"h","u","m","a","n","i","t","a","r","i","a","n">>,
      <<"r","e","f","u","g","e","e">>,
      <<"e","d","u","c","a","t","i","o","n">>,
      <<"h","e","a","l","t","h">>,
      <<"r","e","l","i","g","i","o","n">>,
      <<"f","e","s","t","i","v","a","l">>,
      <<"t","r","a","d","i","t","i","o","n">>,
      <<"c","o","m","m","u","n","i","t","y">>,
      <<"s","o","c","i","a","l">>,
      <<"p","u","b","l","i","c">>,
      <<"c","i","t","i","z","e","n">> >>

highPriorityKeywords ==
   << <<"a","t","t","a","c","k">>,
      <<"w","a","r">>,
      <<"m","i","s","s","i","l","e">>,
      <<"c","o","n","f","l","i","c","t">>,
      <<"c","r","i","s","i","s">>,
      <<"m","i","l","i","t","a","r","y">>,
      <<"b","o","r","d","e","r">>,
      <<"v","i","o","l","a","t","e","d">>,
      <<"t","h","r","e","a","t">>,
      <<"a","r","m","y">>,
      <<"d","e","f","e","n","s","e">>,
      <<"s","e","c","u","r","i","t","y">>,
      <<"n","u","c","l","e","a","r">>,
      <<"w","e","a","p","o","n">>,
      <<"t","e","r","r","o","r","i","s","m">>,
      <<"t","e","n","s","i","o","n">>,
      <<"d","i","s","p","u","t","e">> >>

Categories == {"military", "diplomatic", "economic", "social", "other"}

\* Object.entries order of the `categories` and `scores` objects
categoryOrder == << "military", "diplomatic", "economic", "social" >>

categoryKeywords ==
   [c \in {"military", "diplomatic", "economic", "social"} |->
      CASE c = "military"   -> militaryKeywords
        [] c = "diplomatic" -> diplomaticKeywords
        [] c = "economic"   -> economicKeywords
        [] c = "social"     -> socialKeywords]

(* -------------------------- categorizeArticle -------------------------- *)

\* keywords.reduce((score, keyword) => score + matches, 0) over the first n keywords
RECURSIVE keywordScore(_, _, _)
keywordScore(keywords, textLower, n) ==
   IF n = 0 THEN 0
   ELSE keywordScore(keywords, textLower, n - 1) + matchCount(keywords[n], textLower)

\* the `scores` object after the first loop
scoresOf(textLower) ==
   [c \in {"military", "diplomatic", "economic", "social"} |->
      keywordScore(categoryKeywords[c], textLower, Len(categoryKeywords[c]))]

categoryScores(text) == scoresOf(toLowerCase(text))

\* the comparison not strict: the last of the highest wins
maxStep_lastTie(prev, category, score) ==
   IF score >= prev.maxScore THEN [maxCategory |-> category, maxScore |-> score] ELSE prev

\* one turn of the second loop: strict greater-than against the running maximum
maxStep(prev, category, score) ==
   IF score > prev.maxScore THEN [maxCategory |-> category, maxScore |-> score] ELSE prev

\* the second loop over the first n entries of `scores`, from ('other', 0)
RECURSIVE maxLoop(_, _)
maxLoop(scores, n) ==
   IF n = 0 THEN [maxCategory |-> "other", maxScore |-> 0]
   ELSE maxStep(maxLoop(scores, n - 1), categoryOrder[n], scores[categoryOrder[n]])

\* resultOf without the fallback: maxCategory declared without a value
resultOf_noFallback(m) == IF m.maxScore > 0 THEN m.maxCategory ELSE "undefined"

\* return maxScore > 0 ? maxCategory : 'other'
resultOf(m) == IF m.maxScore > 0 THEN m.maxCategory ELSE "other"

\* categorizeArticle with the second loop stopping one entry early
categorizeArticle_shortLoop(text) ==
   resultOf(maxLoop(categoryScores(text), Len(categoryOrder) - 1))

categorizeArticle(text) == resultOf(maxLoop(categoryScores(text), Len(categoryOrder)))

(* -------------------------- isPriorityArticle -------------------------- *)

someIncluded(textLower, keywords) ==
   \E k \in 1..Len(keywords) : includes(textLower, keywords[k])

containsHighPriorityKeyword(text) == someIncluded(toLowerCase(text), highPriorityKeywords)

\* priorityRule with the last threshold inclusive
priorityRule_inclusiveKeyword(containsKeyword, category, sentiment) ==
   \/ category = "military" /\ containsKeyword
   \/ category = "diplomatic" /\ sentiment < -2
   \/ containsKeyword /\ sentiment <= -3

\* priorityRule with the diplomatic threshold inclusive
priorityRule_inclusiveDiplomatic(containsKeyword, category, sentiment) ==
   \/ category = "military" /\ containsKeyword
   \/ category = "diplomatic" /\ sentiment <= -2
   \/ containsKeyword /\ sentiment < -3

\* the returned expression, given the value of containsHighPriorityKeyword
priorityRule(containsKeyword, category, sentiment) ==
   \/ category = "military" /\ containsKeyword
   \/ category = "diplomatic" /\ sentiment < -2
   \/ containsKeyword /\ sentiment < -3

isPriorityArticle(text, category, sentiment) ==
   priorityRule(containsHighPriorityKeyword(text), category, sentiment)

(* ------------------- the text functions as a system -------------------- *)

Vocabulary ==
   { <<"a","t","t","a","c","k">>,
     <<"W","A","R">>,
     <<"a","w","a","r","d">>,
     <<"t","a","l","k","s">>,
     <<"d","i","p","l","o","m","a","t","i","c">>,
     <<"t","r","a","d","e">>,
     <<"p","e","o","p","l","e">>,
     <<"c","r","i","s","i","s">> }

\* "troops attack near border"
ScenarioText ==
   <<"t","r","o","o","p","s"," ","a","t","t","a","c","k"," ",
     "n","e","a","r"," ","b","o","r","d","e","r">>

\* words joined by single spaces
RECURSIVE joinWords(_)
joinWords(ws) ==
   IF Len(ws) = 0 THEN <<>>
   ELSE IF Len(ws) = 1 THEN ws[1]
   ELSE ws[1] \o <<" ">> \o joinWords(Tail(ws))

WordLists == UNION { [1..n -> Vocabulary] : n \in 0..MaxWords }

Texts == { joinWords(ws) : ws \in WordLists } \cup { ScenarioText }

SentimentScores == (-MaxNegative)..MaxScore

(* ------------------------------- time ----------------------------------- *)
\* Instants are milliseconds; instant 0 is a midnight of the server's zone.

MsPerHour == 60 * 60 * 1000

MsPerDay == 24 * MsPerHour

\* quotient rounded toward zero (moment's absFloor)
truncDiv(a, b) == IF a >= 0 THEN a \div b ELSE -((-a) \div b)

\* moment(t).format('YYYY-MM-DD'): the calendar day of t, as a day number
formatDate(t) == t \div MsPerDay

\* moment(dateString): midnight of that day
parseDate(d) == d * MsPerDay

\* moment(a).diff(moment(b), 'hours')
diffHours(a, b) == truncDiv(a - b, MsPerHour)

(* --------------------------- array helpers ------------------------------ *)

\* a sort that puts an index before the indices of equal key
insertInOrder_unstable(order, keys, n) ==
   LET p == Cardinality({ j \in 1..Len(order) : keys[order[j]] < keys[n] })
   IN  SubSeq(order, 1, p) \o << n >> \o SubSeq(order, p + 1, Len(order))

\* the index n put into `order`, behind every index whose key is not greater
insertInOrder(order, keys, n) ==
   LET p == Cardinality({ j \in 1..Len(order) : keys[order[j]] <= keys[n] })
   IN  SubSeq(order, 1, p) \o << n >> \o SubSeq(order, p + 1, Len(order))

\* Array.prototype.sort with a comparator (a, b) => key(a) - key(b): the
\* indices 1..n of the array in ascending key order, equal keys keeping
\* their original order (the sort is stable)
RECURSIVE stableOrder(_, _)
stableOrder(keys, n) ==
   IF n = 0 THEN <<>> ELSE insertInOrder(stableOrder(keys, n - 1), keys, n)

permuted(arr, order) == [i \in 1..Len(arr) |-> arr[order[i]]]

sortedBy(arr, keys) == permuted(arr, stableOrder(keys, Len(arr)))

\* Array.prototype.slice(0, n)
sliceFirst(arr, n) == SubSeq(arr, 1, IF Len(arr) < n THEN Len(arr) ELSE n)

(* ------------------------------ articles -------------------------------- *)

\* a missing `source` object
NoSource == [undefined |-> TRUE]

\* the value null
Null == [null |-> TRUE]

\* sentimentAnalyzer.analyze(text).score.  The sentiment package is not
\* part of the repository: an upstream article carries, in `score`, the
\* value the analyzer gives for its text.
analyze(article, textToAnalyze) == article.score

\* the object the map callback returns
annotated(article, textToAnalyze, sentimentScore, category) ==
   [ title |-> article.title,
     description |-> article.description,
     url |-> article.url,
     publishedAt |-> article.publishedAt,
     source |-> article.source,
     score |-> article.score,
     sentiment |-> sentimentScore,
     sentimentDetail |-> [score |-> sentimentScore],
     category |-> category,
     isPriority |-> isPriorityArticle(textToAnalyze, category, sentimentScore) ]

\* article.description || ''
descriptionOrEmpty(article) ==
   IF article.description = Undefined \/ article.description = <<>>
   THEN <<>> ELSE article.description

\* article.title + ' ' + description
textToAnalyzeOf(article) ==
   JSString(article.title) \o <<" ">> \o descriptionOrEmpty(article)

analyzed(article, textToAnalyze) ==
   annotated(article, textToAnalyze, analyze(article, textToAnalyze),
             categorizeArticle(textToAnalyze))

\* the callback of data.articles.map
processArticle(article) == analyzed(article, textToAnalyzeOf(article))

\* processArticles keeping only the priority articles
processArticles_filtered(articles) ==
   SelectSeq([i \in 1..Len(articles) |-> processArticle(articles[i])],
             LAMBDA a : a.isPriority)

\* data.articles.map(article => ...)
processArticles(articles) == [i \in 1..Len(articles) |-> processArticle(articles[i])]

(* --------------------------- assessCrisisLevel -------------------------- *)

\* elevated only from four military articles on
levelOf_elevatedAtFour(negativeMilitaryCount, negativeDiplomaticCount) ==
   IF negativeMilitaryCount >= 5 \/ negativeMilitaryCount + negativeDiplomaticCount >= 8
   THEN "severe"
   ELSE IF negativeMilitaryCount >= 4 \/ negativeMilitaryCount + negativeDiplomaticCount >= 5
   THEN "elevated"
   ELSE IF negativeMilitaryCount >= 1 \/ negativeDiplomaticCount >= 2
   THEN "moderate"
   ELSE "normal"

\* severe for exactly five military articles
levelOf_exactlyFive(negativeMilitaryCount, negativeDiplomaticCount) ==
   IF negativeMilitaryCount = 5 \/ negativeMilitaryCount + negativeDiplomaticCount >= 8
   THEN "severe"
   ELSE IF negativeMilitaryCount >= 3 \/ negativeMilitaryCount + negativeDiplomaticCount >= 5
   THEN "elevated"
   ELSE IF negativeMilitaryCount >= 1 \/ negativeDiplomaticCount >= 2
   THEN "moderate"
   ELSE "normal"

\* the thresholds on the two counts, first match first
levelOf(negativeMilitaryCount, negativeDiplomaticCount) ==
   IF negativeMilitaryCount >= 5 \/ negativeMilitaryCount + negativeDiplomaticCount >= 8
   THEN "severe"
   ELSE IF negativeMilitaryCount >= 3 \/ negativeMilitaryCount + negativeDiplomaticCount >= 5
   THEN "elevated"
   ELSE IF negativeMilitaryCount >= 1 \/ negativeDiplomaticCount >= 2
   THEN "moderate"
   ELSE "normal"

negativeCount(recentArticles, category) ==
   Len(SelectSeq(recentArticles, LAMBDA a : a.category = category /\ a.sentiment < -2))

levelOfRecent(recentArticles) ==
   levelOf(negativeCount(recentArticles, "military"),
           negativeCount(recentArticles, "diplomatic"))

\* `wallClock` is the value moment() reads during the call
assessCrisisLevel(articles, wallClock) ==
   IF Len(articles) = 0 THEN "normal"
   ELSE levelOfRecent(SelectSeq(articles,
                         LAMBDA a : diffHours(wallClock, a.publishedAt) < 48))

(* -------------------------- calculateAnalytics -------------------------- *)

categoryCounts(articles) ==
   [ military   |-> Len(SelectSeq(articles, LAMBDA a : a.category = "military")),
     diplomatic |-> Len(SelectSeq(articles, LAMBDA a : a.category = "diplomatic")),
     economic   |-> Len(SelectSeq(articles, LAMBDA a : a.category = "economic")),
     social     |-> Len(SelectSeq(articles, LAMBDA a : a.category = "social")),
     other      |-> Len(SelectSeq(articles, LAMBDA a : a.category = "other")) ]

\* score 0 counted as negative too
sentimentCounts_zeroNegative(articles) ==
   [ positive |-> Len(SelectSeq(articles, LAMBDA a : a.sentiment > 0)),
     neutral  |-> Len(SelectSeq(articles, LAMBDA a : a.sentiment = 0)),
     negative |-> Len(SelectSeq(articles, LAMBDA a : a.sentiment <= 0)) ]

sentimentCounts(articles) ==
   [ positive |-> Len(SelectSeq(articles, LAMBDA a : a.sentiment > 0)),
     neutral  |-> Len(SelectSeq(articles, LAMBDA a : a.sentiment = 0)),
     negative |-> Len(SelectSeq(articles, LAMBDA a : a.sentiment < 0)) ]

\* a fresh byDate entry: it has no `other` property ("absent")
newDateEntry(date) ==
   [ date |-> date, count |-> 0, military |-> 0, diplomatic |-> 0, economic |-> 0,
     social |-> 0, other |-> "absent" ]

\* byDate[date].count++; byDate[date][category]++ on entry i.
\* undefined++ on the missing `other` property stores NaN.
countedIn(entries, i, category) ==
   IF category = "other"
   THEN [entries EXCEPT ![i].count = @ + 1, ![i].other = "NaN"]
   ELSE [entries EXCEPT ![i].count = @ + 1, ![i][category] = @ + 1]

\* one turn of articles.forEach on the byDate object, which is held as its
\* entries in insertion order
addToDate(entries, date, category) ==
   IF \E i \in 1..Len(entries) : entries[i].date = date
   THEN countedIn(entries, CHOOSE i \in 1..Len(entries) : entries[i].date = date, category)
   ELSE countedIn(Append(entries, newDateEntry(date)), Len(entries) + 1, category)

RECURSIVE byDate(_, _)
byDate(articles, n) ==
   IF n = 0 THEN <<>>
   ELSE addToDate(byDate(articles, n - 1), formatDate(articles[n].publishedAt),
                  articles[n].category)

entryDates(entries) == [i \in 1..Len(entries) |-> parseDate(entries[i].date)]

\* the entries left in the order the days were first seen
sortedEntries_unsorted(entries) == entries

sortedEntries(entries) == sortedBy(entries, entryDates(entries))

timelineData(articles) == sortedEntries(byDate(articles, Len(articles)))

Digits == { "0", "1", "2", "3", "4", "5", "6", "7", "8", "9" }

excludedWords ==
   { <<"t","h","e">>, <<"a","n","d">>, <<"o","f">>, <<"i","n">>, <<"t","o">>,
     <<"a">>, <<"i","s">>, <<"f","o","r">>, <<"o","n">>, <<"w","i","t","h">>,
     <<"a","s">>, <<"a","t">>, <<"b","y">> }

\* position of the first space of s
firstSpace(s) == CHOOSE i \in 1..Len(s) : s[i] = " " /\ \A j \in 1..(i - 1) : s[j] # " "

\* position of the first non-space after position p, Len(s) + 1 if none
afterSpaces(s, p) ==
   IF \E i \in (p + 1)..Len(s) : s[i] # " "
   THEN CHOOSE i \in (p + 1)..Len(s) : s[i] # " " /\ \A j \in (p + 1)..(i - 1) : s[j] = " "
   ELSE Len(s) + 1

\* String.prototype.split(/\s+/): the pieces between maximal runs of spaces
RECURSIVE splitWhitespace(_)
splitWhitespace(s) ==
   IF \A i \in 1..Len(s) : s[i] # " " THEN << s >>
   ELSE << SubSeq(s, 1, firstSpace(s) - 1) >>
           \o splitWhitespace(SubSeq(s, afterSpaces(s, firstSpace(s)), Len(s)))

\* words of three letters counted too
isTrendingWord_threeLetters(word) ==
   /\ Len(word) > 2
   /\ word \notin excludedWords
   /\ ~(\A i \in 1..Len(word) : word[i] \in Digits)

\* the filter on the words of one article
isTrendingWord(word) ==
   /\ Len(word) > 3
   /\ word \notin excludedWords
   /\ ~(\A i \in 1..Len(word) : word[i] \in Digits)

articleWords(article) ==
   LET t == toLowerCase(JSString(article.title) \o <<" ">> \o JSString(article.description))
   IN  SelectSeq(splitWhitespace(t), isTrendingWord)

\* keywords[word] = (keywords[word] || 0) + 1 for each word in turn; the
\* object as its entries in insertion order
RECURSIVE countWords(_, _)
countWords(entries, words) ==
   IF Len(words) = 0 THEN entries
   ELSE LET word == Head(words)
            next == IF \E i \in 1..Len(entries) : entries[i].word = word
                    THEN [i \in 1..Len(entries) |->
                            IF entries[i].word = word
                            THEN [entries[i] EXCEPT !.count = @ + 1]
                            ELSE entries[i]]
                    ELSE Append(entries, [word |-> word, count |-> 1])
        IN  countWords(next, Tail(words))

RECURSIVE keywordEntries(_, _)
keywordEntries(articles, n) ==
   IF n = 0 THEN <<>>
   ELSE countWords(keywordEntries(articles, n - 1), articleWords(articles[n]))

\* the sort without the slice
topTen_unsliced(entries) ==
   sortedBy(entries, [i \in 1..Len(entries) |-> -entries[i].count])

\* .sort((a, b) => b[1] - a[1]).slice(0, 10)
topTen(entries) ==
   sliceFirst(sortedBy(entries, [i \in 1..Len(entries) |-> -entries[i].count]), 10)

trendingKeywords(articles) == topTen(keywordEntries(articles, Len(articles)))

\* [...articles].sort(...)[0] for the three key insights
mostRecentOf(articles) ==
   sortedBy(articles, [i \in 1..Len(articles) |-> -articles[i].publishedAt])[1]

mostNegativeOf(articles) ==
   sortedBy(articles, [i \in 1..Len(articles) |-> articles[i].sentiment])[1]

mostPositiveOf(articles) ==
   sortedBy(articles, [i \in 1..Len(articles) |-> -articles[i].sentiment])[1]

\* sentiment -3 counted as significant for a military article
isSignificantEvent_inclusive(article) ==
   \/ article.category = "military" /\ article.sentiment <= -3
   \/ article.category = "diplomatic" /\ article.sentiment < -4

isSignificantEvent(article) ==
   \/ article.category = "military" /\ article.sentiment < -3
   \/ article.category = "diplomatic" /\ article.sentiment < -4

\* the projection of one significant event
eventOf(article) ==
   [ title |-> article.title,
     date |-> article.publishedAt,
     category |-> article.category,
     sentiment |-> article.sentiment,
     source |-> article.source.name,
     url |-> article.url ]

projected(events) == [i \in 1..Len(events) |-> eventOf(events[i])]

significantEvents(articles) == projected(SelectSeq(articles, isSignificantEvent))

\* reading article.source.name of an article without `source` throws a
\* TypeError: in the significantEvents map and in keyInsights.mostRecent
calculateAnalyticsThrows(articles) ==
   /\ Len(articles) > 0
   /\ \/ \E i \in 1..Len(articles) :
            isSignificantEvent(articles[i]) /\ articles[i].source = NoSource
      \/ mostRecentOf(articles).source = NoSource

keyInsights(mostRecent, mostNegative, mostPositive) ==
   [ mostRecent |-> [ title |-> mostRecent.title,
                      date |-> mostRecent.publishedAt,
                      source |-> mostRecent.source.name ],
     mostNegative |-> [ title |-> mostNegative.title,
                        sentiment |-> mostNegative.sentiment,
                        category |-> mostNegative.category ],
     mostPositive |-> [ title |-> mostPositive.title,
                        sentiment |-> mostPositive.sentiment,
                        category |-> mostPositive.category ] ]

\* the value returned when the call does not throw; `wallClock` is the
\* instant read by moment() and new Date() during the call
calculateAnalytics(articles, wallClock) ==
   IF Len(articles) = 0 THEN Null
   ELSE [ categories |-> categoryCounts(articles),
          sentimentCounts |-> sentimentCounts(articles),
          timelineData |-> timelineData(articles),
          trendingKeywords |-> trendingKeywords(articles),
          keyInsights |-> keyInsights(mostRecentOf(articles), mostNegativeOf(articles),
                                      mostPositiveOf(articles)),
          crisisLevel |-> assessCrisisLevel(articles, wallClock),
          significantEvents |-> significantEvents(articles),
          lastUpdated |-> wallClock ]

(* ======================= the text functions alone ====================== *)

VARIABLES
   text,          \* the text argument of the call
   tpc,           \* "input", "categorized" or "classified" ("off": not in use)
   category,      \* result of categorizeArticle, "none" before the call
   argCategory,   \* category argument of isPriorityArticle
   argSentiment,  \* sentiment argument of isPriorityArticle
   isPriority     \* result of isPriorityArticle

VARIABLES
   newsCache,     \* the module-level cache object {data, lastFetched}
   apiKey,        \* whether process.env.GNEWS_API_KEY is set
   clock,         \* the wall clock, the value new Date() and moment() read
   req,           \* the /api/news requests, in arrival order
   cacheWriter    \* history: the request that last assigned each cache field

VARIABLES
   rawArticles,   \* the upstream article list given to the pipeline
   articles,      \* the annotated list, the argument of calculateAnalytics
   analytics,     \* the value calculateAnalytics returned
   apc            \* "input", "annotated", "returned" or "threw" ("off": not in use)

VARIABLES
   crisisArticles, \* the argument of assessCrisisLevel
   crisisLevel,    \* the level it returned, "none" before the call
   previousLevel,  \* the level returned for the list without its last article
   cpc             \* "input", "assessed" or "extended" ("off": not in use)

VARIABLES
   news,              \* React state `news` of the dashboard
   error,             \* React state `error`: Null or the message
   loading,           \* React state `loading`
   notificationShown, \* React state `notificationShown`
   notified,          \* history: the number of calls of showNotification
   fetches,           \* the calls of fetchNews that have not returned
   lastCompleted      \* history: how the call that returned last ended

VARIABLES
   bookmarks,         \* React state `bookmarks`
   lastToggled,       \* history: the article of the last operation, if a toggle
   beforeLast,        \* history: the bookmarks before the last operation
   twice,             \* history: the last two operations toggled one article
   beforeTwo          \* history: the bookmarks before these two operations

textVars == << text, tpc, category, argCategory, argSentiment, isPriority >>

serverVars == << newsCache, apiKey, clock, req, cacheWriter >>

analyticsVars == << rawArticles, articles, analytics, apc >>

crisisVars == << crisisArticles, crisisLevel, previousLevel, cpc >>

\* the variables of the functions taken alone
pureVars == << textVars, analyticsVars, crisisVars >>

fetchVars ==
   << news, error, loading, notificationShown, notified, fetches, lastCompleted >>

bookmarkVars == << bookmarks, lastToggled, beforeLast, twice, beforeTwo >>

\* the variables of the browser client
clientVars == << fetchVars, bookmarkVars >>

vars == << textVars, serverVars, analyticsVars, crisisVars, clientVars >>

(* ------------------------- the server, at rest -------------------------- *)

Requests == 1..MaxRequests

idleRequest ==
   [ pc |-> "idle", now |-> 0, raw |-> <<>>, status |-> 0, body |-> Null,
     outcome |-> "none" ]

ServerAtStart ==
   /\ newsCache = [data |-> Null, lastFetched |-> Null]
   /\ clock = 0
   /\ req = [r \in Requests |-> idleRequest]
   /\ cacheWriter = [data |-> 0, lastFetched |-> 0]

TextUnused ==
   /\ text = <<>>
   /\ tpc = "off"
   /\ category = "none"
   /\ argCategory = "none"
   /\ argSentiment = 0
   /\ isPriority = FALSE

AnalyticsUnused ==
   /\ rawArticles = <<>>
   /\ articles = <<>>
   /\ analytics = Null
   /\ apc = "off"

CrisisUnused ==
   /\ crisisArticles = <<>>
   /\ crisisLevel = "none"
   /\ previousLevel = "none"
   /\ cpc = "off"

\* the number of calls of fetchNews in flight at one time
FetchSlots == 1..MaxInFlight

idleFetch == [pc |-> "idle", notificationShown |-> FALSE, ok |-> FALSE]

\* the useState initial values, no call of fetchNews
FetchUnused ==
   /\ news = <<>>
   /\ error = Null
   /\ loading = TRUE
   /\ notificationShown = FALSE
   /\ notified = 0
   /\ fetches = [f \in FetchSlots |-> idleFetch]
   /\ lastCompleted = "none"

BookmarksUnused ==
   /\ bookmarks = <<>>
   /\ lastToggled = Null
   /\ beforeLast = <<>>
   /\ twice = FALSE
   /\ beforeTwo = <<>>

ClientUnused == FetchUnused /\ BookmarksUnused

(* ------------------------- text specification --------------------------- *)

InitText ==
   /\ text \in Texts
   /\ tpc = "input"
   /\ category = "none"
   /\ argCategory = "none"
   /\ argSentiment = 0
   /\ isPriority = FALSE
   /\ ServerAtStart
   /\ apiKey = TRUE
   /\ AnalyticsUnused
   /\ CrisisUnused
   /\ ClientUnused

CallCategorize ==
   /\ tpc = "input"
   /\ category' = categorizeArticle(text)
   /\ tpc' = "categorized"
   /\ UNCHANGED << text, argCategory, argSentiment, isPriority >>
   /\ UNCHANGED << serverVars, analyticsVars, crisisVars, clientVars >>

CallIsPriority ==
   /\ tpc = "input"
   /\ \E c \in Categories, s \in SentimentScores :
         /\ argCategory' = c
         /\ argSentiment' = s
         /\ isPriority' = isPriorityArticle(text, c, s)
   /\ tpc' = "classified"
   /\ UNCHANGED << text, category >>
   /\ UNCHANGED << serverVars, analyticsVars, crisisVars, clientVars >>

NextText == CallCategorize \/ CallIsPriority

SpecText == InitText /\ [][NextText]_vars

(* ========================= the /api/news server ======================== *)

\* 15 * 60 * 1000 in the cache test
TTL == 15 * 60 * 1000

\* the instants at which something happens
Instants == { 0, TTL - 1, TTL }

\* "WAR" / "attack", an hour before instant 0
warArticle ==
   [ title |-> <<"W","A","R">>,
     description |-> <<"a","t","t","a","c","k">>,
     url |-> "u1",
     publishedAt |-> -MsPerHour,
     source |-> [name |-> "BBC"],
     score |-> -4 ]

\* "talks" without description and without source, a day earlier
talksArticle ==
   [ title |-> <<"t","a","l","k","s">>,
     description |-> Undefined,
     url |-> "u2",
     publishedAt |-> -MsPerDay - MsPerHour,
     source |-> NoSource,
     score |-> 0 ]

\* the article lists the provider may answer with
Feeds ==
   { <<>>, << warArticle >>, << talksArticle >>,
     << warArticle, talksArticle >>, << talksArticle, warArticle >> }

errorBody(message) == [error |-> message]

\* cacheIsFresh taking an entry without articles for no entry
cacheIsFresh_nonEmpty(now) ==
   /\ newsCache.data # Null
   /\ Len(newsCache.data.articles) > 0
   /\ newsCache.lastFetched # Null
   /\ now - newsCache.lastFetched.time < TTL

\* cacheIsFresh with an inclusive age test
cacheIsFresh_inclusive(now) ==
   /\ newsCache.data # Null
   /\ newsCache.lastFetched # Null
   /\ now - newsCache.lastFetched.time <= TTL

\* the test of the `if` that returns cached data
cacheIsFresh(now) ==
   /\ newsCache.data # Null
   /\ newsCache.lastFetched # Null
   /\ now - newsCache.lastFetched.time < TTL

\* updatedCache stamping the entry with the time of the write
updatedCache_writeTime(processedResponse, now) ==
   [data |-> processedResponse, lastFetched |-> [time |-> clock]]

\* updatedCache keeping the analytics of the entry it replaces
updatedCache_merged(processedResponse, now) ==
   [ data |-> [ articles |-> processedResponse.articles,
                analytics |-> IF newsCache.data # Null THEN newsCache.data.analytics
                              ELSE processedResponse.analytics ],
     lastFetched |-> [time |-> now] ]

\* newsCache.data = processedResponse; newsCache.lastFetched = now
updatedCache(processedResponse, now) ==
   [data |-> processedResponse, lastFetched |-> [time |-> now]]

respond(r, status, body, outcome) ==
   [req EXCEPT ![r].pc = "done", ![r].status = status, ![r].body = body,
               ![r].outcome = outcome]

\* a request arrives: the handler runs up to its first await, or to a response
Request(r) ==
   /\ req[r].pc = "idle"
   /\ \A q \in 1..(r - 1) : req[q].pc # "idle"
   /\ LET now == clock
          arrived == [req EXCEPT ![r].now = now]
      IN  IF cacheIsFresh(now)
          THEN req' = [arrived EXCEPT ![r].pc = "done", ![r].status = 200,
                                      ![r].body = newsCache.data, ![r].outcome = "hit"]
          ELSE IF ~apiKey
          THEN req' = [arrived EXCEPT ![r].pc = "done", ![r].status = 500,
                                      ![r].body = errorBody("API key not configured"),
                                      ![r].outcome = "noKey"]
          ELSE req' = [arrived EXCEPT ![r].pc = "fetch"]
   /\ UNCHANGED << newsCache, apiKey, clock, cacheWriter >>
   /\ UNCHANGED << pureVars, clientVars >>

\* await fetch(url) rejects: the catch block answers
FetchRejects(r) ==
   /\ req[r].pc = "fetch"
   /\ req' = respond(r, 500, errorBody("Failed to fetch news data"), "fetchRejected")
   /\ UNCHANGED << newsCache, apiKey, clock, cacheWriter >>
   /\ UNCHANGED << pureVars, clientVars >>

\* await fetch(url) resolves: the handler goes on to await response.json()
FetchResolves(r) ==
   /\ req[r].pc = "fetch"
   /\ req' = [req EXCEPT ![r].pc = "json"]
   /\ UNCHANGED << newsCache, apiKey, clock, cacheWriter >>
   /\ UNCHANGED << pureVars, clientVars >>

\* await response.json() rejects: the catch block answers
JsonRejects(r) ==
   /\ req[r].pc = "json"
   /\ req' = respond(r, 500, errorBody("Failed to fetch news data"), "jsonRejected")
   /\ UNCHANGED << newsCache, apiKey, clock, cacheWriter >>
   /\ UNCHANGED << pureVars, clientVars >>

\* JsonWithoutArticles dropping the cache entry on the error
JsonWithoutArticles_clearing(r) ==
   /\ req[r].pc = "json"
   /\ req' = respond(r, 500, errorBody("Invalid API response"), "noArticles")
   /\ newsCache' = [data |-> Null, lastFetched |-> Null]
   /\ UNCHANGED << apiKey, clock, cacheWriter >>
   /\ UNCHANGED << pureVars, clientVars >>

\* the body has no `articles`
JsonWithoutArticles(r) ==
   /\ req[r].pc = "json"
   /\ req' = respond(r, 500, errorBody("Invalid API response"), "noArticles")
   /\ UNCHANGED << newsCache, apiKey, clock, cacheWriter >>
   /\ UNCHANGED << pureVars, clientVars >>

\* the request after the refresh succeeded
refreshed(r, feed, processedResponse) ==
   [req EXCEPT ![r].raw = feed, ![r].pc = "done", ![r].status = 200,
               ![r].body = processedResponse, ![r].outcome = "refreshed"]

\* from `const processedResponse = ...` to the response
storeAndRespond(r, feed, processedResponse) ==
   /\ newsCache' = updatedCache(processedResponse, req[r].now)
   /\ cacheWriter' = [data |-> r, lastFetched |-> r]
   /\ req' = refreshed(r, feed, processedResponse)

\* from calculateAnalytics to the response; a TypeError thrown inside
\* calculateAnalytics ends in the catch block
aggregateAndRespond(r, feed, processedArticles) ==
   IF calculateAnalyticsThrows(processedArticles)
   THEN /\ req' = [req EXCEPT ![r].raw = feed, ![r].pc = "done", ![r].status = 500,
                      ![r].body = errorBody("Failed to fetch news data"),
                      ![r].outcome = "threw"]
        /\ UNCHANGED << newsCache, cacheWriter >>
   ELSE storeAndRespond(r, feed, [ articles |-> processedArticles,
                                   analytics |-> calculateAnalytics(processedArticles, clock) ])

\* the body has an article list: annotate, aggregate, update the cache, answer
JsonWithArticles(r) ==
   /\ req[r].pc = "json"
   /\ \E feed \in Feeds : aggregateAndRespond(r, feed, processArticles(feed))
   /\ UNCHANGED << apiKey, clock >>
   /\ UNCHANGED << pureVars, clientVars >>

\* time passes
Tick ==
   /\ \E t \in Instants : t > clock /\ clock' = t
   /\ UNCHANGED << newsCache, apiKey, req, cacheWriter >>
   /\ UNCHANGED << pureVars, clientVars >>

Init ==
   /\ ServerAtStart
   /\ apiKey \in BOOLEAN
   /\ TextUnused
   /\ AnalyticsUnused
   /\ CrisisUnused
   /\ ClientUnused

Next ==
   \/ \E r \in Requests : Request(r)
   \/ \E r \in Requests : FetchRejects(r)
   \/ \E r \in Requests : FetchResolves(r)
   \/ \E r \in Requests : JsonRejects(r)
   \/ \E r \in Requests : JsonWithoutArticles(r)
   \/ \E r \in Requests : JsonWithArticles(r)
   \/ Tick

Spec == Init /\ [][Next]_vars

(* ============================== properties ============================= *)

\* request r gets its response in this step
completes(r) == req[r].pc # "done" /\ req'[r].pc = "done"

\* the ways a refresh fails
Failures == { "noKey", "fetchRejected", "jsonRejected", "noArticles", "threw" }

\* C1: a request whose refresh fails (no API key, fetch or json() rejecting,
\* a body without articles, processing throwing) is answered with status 500
\* and an error body, and the step leaves newsCache as it was.
C1_FailedRefreshKeepsCache ==
   [][\A r \in Requests :
         (completes(r) /\ req'[r].outcome \in Failures) =>
            /\ req'[r].status = 500
            /\ DOMAIN req'[r].body = {"error"}
            /\ newsCache' = newsCache]_vars

\* a failed refresh on an expired entry, the entry still in the cache
C1_Witness ==
   \E r \in Requests :
      /\ req[r].pc = "done"
      /\ req[r].outcome \in Failures
      /\ newsCache.data # Null
      /\ req[r].now - newsCache.lastFetched.time >= TTL

\* C2: a request that finds an entry younger than the TTL is answered with
\* the stored entry in the same step, without a fetch and without touching
\* the cache; at an age of TTL or more (or without entry) the refresh path
\* is taken: the fetch starts, or the missing API key is reported.
C2_FreshEntryServedWithoutFetch ==
   [][\A r \in Requests :
         (req[r].pc = "idle" /\ req'[r].pc # "idle") =>
            IF /\ newsCache.data # Null
               /\ newsCache.lastFetched # Null
               /\ clock - newsCache.lastFetched.time < TTL
            THEN /\ req'[r].pc = "done"
                 /\ req'[r].status = 200
                 /\ req'[r].body = newsCache.data
                 /\ newsCache' = newsCache
            ELSE \/ req'[r].pc = "fetch"
                 \/ /\ ~apiKey
                    /\ req'[r].pc = "done"
                    /\ req'[r].status = 500]_vars

\* one request served from the cache at age TTL - 1
C2_Witness ==
   \E r \in Requests :
      /\ req[r].pc = "done"
      /\ req[r].outcome = "hit"
      /\ req[r].body = newsCache.data
      /\ req[r].now - newsCache.lastFetched.time = TTL - 1

\* C3: at most one request is between the start of its upstream fetch and
\* its cache write.
C3_SingleFlight ==
   Cardinality({ r \in Requests : req[r].pc \in {"fetch", "json"} }) <= 1

\* C4: when a refresh succeeds, the cache holds the {articles, analytics}
\* value sent to that request, stamped with the `now` the request read
\* before its fetch.
C4_RefreshStoresResponse ==
   [][\A r \in Requests :
         (completes(r) /\ req[r].pc = "json" /\ req'[r].status = 200) =>
            /\ DOMAIN req'[r].body = {"articles", "analytics"}
            /\ newsCache' = [ data |-> req'[r].body,
                              lastFetched |-> [time |-> req[r].now] ]]_vars

\* a refresh during which time passed: the entry carries the earlier `now`
C4_Witness ==
   \E r \in Requests :
      /\ req[r].outcome = "refreshed"
      /\ Len(req[r].raw) > 0
      /\ newsCache.data = req[r].body
      /\ newsCache.lastFetched.time = req[r].now
      /\ req[r].body.analytics.lastUpdated > req[r].now

\* the analytics of a response are those of its articles
analyticsOfArticles(data) ==
   IF Len(data.articles) = 0 THEN data.analytics = Null
   ELSE /\ data.analytics # Null
        /\ data.analytics = calculateAnalytics(data.articles, data.analytics.lastUpdated)

\* C5: the cache is empty in both fields, or both fields were written by one
\* successful refresh and the analytics are those of the stored articles.
C5_CacheEntryWhole ==
   \/ newsCache.data = Null /\ newsCache.lastFetched = Null
   \/ /\ newsCache.data # Null
      /\ newsCache.lastFetched # Null
      /\ cacheWriter.data \in Requests
      /\ cacheWriter.lastFetched = cacheWriter.data
      /\ req[cacheWriter.data].outcome = "refreshed"
      /\ newsCache.data = req[cacheWriter.data].body
      /\ newsCache.lastFetched.time = req[cacheWriter.data].now
      /\ analyticsOfArticles(newsCache.data)

\* an entry written over an earlier entry with other articles
C5_Witness ==
   \E r, q \in Requests :
      /\ req[r].outcome = "refreshed"
      /\ req[q].outcome = "refreshed"
      /\ Len(req[r].raw) > 0
      /\ Len(req[q].raw) > 0
      /\ req[r].raw # req[q].raw
      /\ cacheWriter.data = q
      /\ newsCache.data = req[q].body

\* some keyword of some category occurs in the lower-cased text
keywordOccurs(textLower) ==
   \E c \in {"military", "diplomatic", "economic", "social"} :
      \E k \in 1..Len(categoryKeywords[c]) : includes(textLower, categoryKeywords[c][k])

\* C6: categorizeArticle returns one of the five categories.
C6_CategoryIsOneOfFive ==
   tpc = "categorized" => category \in Categories

\* a text categorized as other and one categorized otherwise
C6_Witness == tpc = "categorized" /\ category = "other" /\ text # <<>>

\* C7: the result is other exactly when no keyword of any category occurs in
\* the text; the empty text gives other.
C7_OtherIffNoKeyword ==
   tpc = "categorized" =>
      /\ (category = "other") <=> ~keywordOccurs(toLowerCase(text))
      /\ (text = <<>> => category = "other")

\* the empty text, categorized
C7_Witness == tpc = "categorized" /\ text = <<>> /\ category = "other"

\* C8: isPriorityArticle is the disjunction of its three clauses.
C8_PriorityRule ==
   tpc = "classified" =>
      (isPriority <=>
         \/ (argCategory = "military" /\ containsHighPriorityKeyword(text))
         \/ (argCategory = "diplomatic" /\ argSentiment < -2)
         \/ (containsHighPriorityKeyword(text) /\ argSentiment < -3))

\* "troops attack near border", military, sentiment -4: priority
C8_Witness ==
   /\ tpc = "classified"
   /\ text = ScenarioText
   /\ argCategory = "military"
   /\ argSentiment = -4
   /\ isPriority

\* C9: with a sentiment of -2 or more an article is priority only if it is
\* military with a high-priority keyword.
C9_MildSentimentNotPriority ==
   (/\ tpc = "classified"
    /\ argSentiment >= -2
    /\ ~(argCategory = "military" /\ containsHighPriorityKeyword(text)))
      => ~isPriority

\* a diplomatic text with a keyword at sentiment -2: not priority
C9_Witness ==
   /\ tpc = "classified"
   /\ argSentiment = -2
   /\ argCategory = "diplomatic"
   /\ containsHighPriorityKeyword(text)
   /\ ~isPriority

\* C10: a refreshed response has one annotated article per upstream article,
\* in the upstream order, and each isPriority is isPriorityArticle of that
\* article's text, category and sentiment.
C10_AnnotationKeepsArticles ==
   \A r \in Requests :
      req[r].outcome = "refreshed" =>
         /\ Len(req[r].body.articles) = Len(req[r].raw)
         /\ \A i \in 1..Len(req[r].raw) :
               /\ req[r].body.articles[i].url = req[r].raw[i].url
               /\ req[r].body.articles[i].title = req[r].raw[i].title
               /\ req[r].body.articles[i].isPriority =
                     isPriorityArticle(textToAnalyzeOf(req[r].raw[i]),
                                       req[r].body.articles[i].category,
                                       req[r].body.articles[i].sentiment)

\* two different articles, the first priority and the second not
C10_Witness ==
   \E r \in Requests :
      /\ req[r].outcome = "refreshed"
      /\ Len(req[r].raw) = 2
      /\ req[r].raw[1] # req[r].raw[2]
      /\ req[r].body.articles[1].isPriority
      /\ ~req[r].body.articles[2].isPriority

(* ================= annotation and aggregation alone ==================== *)

\* "peace talks" / "crisis", at the same instant as warArticle
summitArticle ==
   [ title |-> <<"p","e","a","c","e"," ","t","a","l","k","s">>,
     description |-> <<"c","r","i","s","i","s">>,
     url |-> "u3",
     publishedAt |-> -MsPerHour,
     source |-> [name |-> "Dawn"],
     score |-> -5 ]

\* "trade" / "trade", a day earlier
tradeArticle ==
   [ title |-> <<"t","r","a","d","e">>,
     description |-> <<"t","r","a","d","e">>,
     url |-> "u4",
     publishedAt |-> -MsPerDay - MsPerHour,
     source |-> [name |-> "Reuters"],
     score |-> 2 ]

\* "crisis" with an empty description, two days earlier
crisisArticle ==
   [ title |-> <<"c","r","i","s","i","s">>,
     description |-> <<>>,
     url |-> "u5",
     publishedAt |-> -(2 * MsPerDay) - MsPerHour,
     source |-> [name |-> "BBC"],
     score |-> -4 ]

\* an article without title: "attack" as description
untitledArticle ==
   [ title |-> Undefined,
     description |-> <<"a","t","t","a","c","k">>,
     url |-> "u6",
     publishedAt |-> -MsPerHour,
     source |-> [name |-> "Dawn"],
     score |-> -3 ]

\* a headline of twelve different words longer than three letters
headlineArticle ==
   [ title |-> <<"I","n","d","i","a"," ","P","a","k","i","s","t","a","n"," ",
                 "l","e","a","d","e","r","s"," ","m","e","e","t"," ",
                 "a","f","t","e","r"," ","l","o","n","g"," ","t","e","n","s","e"," ",
                 "w","e","e","k"," ","a","m","i","d"," ","f","r","e","s","h"," ",
                 "b","o","r","d","e","r"," ","t","a","l","k","s">>,
     description |-> <<>>,
     url |-> "u7",
     publishedAt |-> -MsPerHour,
     source |-> [name |-> "Reuters"],
     score |-> -1 ]

ArticlePool ==
   { warArticle, talksArticle, summitArticle, tradeArticle, crisisArticle,
     untitledArticle }

\* the article lists given to the pipeline
RawLists ==
   UNION { [1..n -> ArticlePool] : n \in 0..MaxArticles }
      \cup { << headlineArticle >>, << headlineArticle, talksArticle >>,
              << warArticle, summitArticle, warArticle, summitArticle >> }

InitAnalytics ==
   /\ rawArticles \in RawLists
   /\ articles = <<>>
   /\ analytics = Null
   /\ apc = "input"
   /\ ServerAtStart
   /\ apiKey = TRUE
   /\ TextUnused
   /\ CrisisUnused
   /\ ClientUnused

\* data.articles.map(...)
Annotate ==
   /\ apc = "input"
   /\ articles' = processArticles(rawArticles)
   /\ apc' = "annotated"
   /\ UNCHANGED << rawArticles, analytics >>
   /\ UNCHANGED << textVars, serverVars, crisisVars, clientVars >>

\* calculateAnalytics(processedArticles): it returns or throws
Aggregate ==
   /\ apc = "annotated"
   /\ IF calculateAnalyticsThrows(articles)
      THEN apc' = "threw" /\ UNCHANGED analytics
      ELSE apc' = "returned" /\ analytics' = calculateAnalytics(articles, clock)
   /\ UNCHANGED << rawArticles, articles >>
   /\ UNCHANGED << textVars, serverVars, crisisVars, clientVars >>

NextAnalytics == Annotate \/ Aggregate

SpecAnalytics == InitAnalytics /\ [][NextAnalytics]_vars

(* ======================== assessCrisisLevel alone ====================== *)

\* a military article of sentiment -3, an hour before the evaluation
negativeMilitary ==
   [ title |-> <<"a","t","t","a","c","k">>,
     description |-> <<>>,
     url |-> "m",
     publishedAt |-> -MsPerHour,
     source |-> [name |-> "BBC"],
     score |-> -3 ]

\* a diplomatic article of sentiment -3, an hour before the evaluation
negativeDiplomatic ==
   [ title |-> <<"t","a","l","k","s">>,
     description |-> <<>>,
     url |-> "d",
     publishedAt |-> -MsPerHour,
     source |-> [name |-> "BBC"],
     score |-> -3 ]

\* negativeMilitary at other ages and at sentiment -2
EdgeArticles ==
   { [negativeMilitary EXCEPT !.publishedAt = -(48 * MsPerHour)],
     [negativeMilitary EXCEPT !.publishedAt = -(48 * MsPerHour) + 1],
     [negativeMilitary EXCEPT !.publishedAt = -(72 * MsPerHour)],
     [negativeMilitary EXCEPT !.publishedAt = MsPerHour],
     [negativeMilitary EXCEPT !.score = -2] }

repeated(article, n) == [i \in 1..n |-> article]

\* m negative military, d negative diplomatic articles and at most one
\* edge article
CrisisLists ==
   { repeated(negativeMilitary, m) \o repeated(negativeDiplomatic, d) \o e :
        m \in 0..MaxMilitary, d \in 0..MaxDiplomatic,
        e \in { <<>> } \cup { << a >> : a \in EdgeArticles } }

InitCrisis ==
   /\ crisisArticles \in { processArticles(l) : l \in CrisisLists }
   /\ crisisLevel = "none"
   /\ previousLevel = "none"
   /\ cpc = "input"
   /\ ServerAtStart
   /\ apiKey = TRUE
   /\ TextUnused
   /\ AnalyticsUnused
   /\ ClientUnused

\* assessCrisisLevel(articles)
Assess ==
   /\ cpc = "input"
   /\ crisisLevel' = assessCrisisLevel(crisisArticles, clock)
   /\ cpc' = "assessed"
   /\ UNCHANGED << crisisArticles, previousLevel >>
   /\ UNCHANGED << textVars, serverVars, analyticsVars, clientVars >>

\* the call repeated on the list with one more negative military article
AssessWithOneMore ==
   /\ cpc = "assessed"
   /\ crisisArticles' = Append(crisisArticles, processArticle(negativeMilitary))
   /\ previousLevel' = crisisLevel
   /\ crisisLevel' = assessCrisisLevel(crisisArticles', clock)
   /\ cpc' = "extended"
   /\ UNCHANGED << textVars, serverVars, analyticsVars, clientVars >>

NextCrisis == Assess \/ AssessWithOneMore

SpecCrisis == InitCrisis /\ [][NextCrisis]_vars

(* ===================== the dashboard client: fetchNews ================== *)

\* an article as the client uses it for the notification
plainArticle == [url |-> "u1", isPriority |-> FALSE]

urgentArticle == [url |-> "u2", isPriority |-> TRUE]

\* the bodies of a response with status 200: with an article list, or
\* without the `articles` property
Bodies ==
   { [hasArticles |-> TRUE, articles |-> l] :
        l \in { <<>>, << plainArticle >>, << urgentArticle >>,
                << plainArticle, urgentArticle >> } }
      \cup { [hasArticles |-> FALSE, articles |-> <<>>] }

\* a call of fetchNews up to `await fetch(...)`: setLoading(true); the
\* callback in use is the one of the last render, with its notificationShown
started(f) ==
   [fetches EXCEPT ![f] = [pc |-> "fetch", notificationShown |-> notificationShown,
                           ok |-> FALSE]]

returned(f) == [fetches EXCEPT ![f] = idleFetch]

\* the first early return of the render is not taken and the second is
errorScreen ==
   /\ ~(loading /\ Len(news) = 0)
   /\ error # Null
   /\ Len(news) = 0

\* the state after the first render and its effects: fetchNews() called once
InitClient ==
   /\ news = <<>>
   /\ error = Null
   /\ loading = TRUE
   /\ notificationShown = FALSE
   /\ notified = 0
   /\ fetches = [f \in FetchSlots |->
                   IF f = 1 THEN [pc |-> "fetch", notificationShown |-> FALSE, ok |-> FALSE]
                   ELSE idleFetch]
   /\ lastCompleted = "none"
   /\ BookmarksUnused
   /\ ServerAtStart
   /\ apiKey = TRUE
   /\ TextUnused
   /\ AnalyticsUnused
   /\ CrisisUnused

\* setInterval(fetchNews, 300000) fires
IntervalFires ==
   /\ \E f \in FetchSlots :
         /\ fetches[f].pc = "idle"
         /\ fetches' = started(f)
   /\ loading' = TRUE
   /\ UNCHANGED << news, error, notificationShown, notified, lastCompleted >>
   /\ UNCHANGED << bookmarkVars, textVars, serverVars, analyticsVars, crisisVars >>

\* the Retry button of the error screen
Retry ==
   /\ errorScreen
   /\ \E f \in FetchSlots :
         /\ fetches[f].pc = "idle"
         /\ fetches' = started(f)
   /\ loading' = TRUE
   /\ UNCHANGED << news, error, notificationShown, notified, lastCompleted >>
   /\ UNCHANGED << bookmarkVars, textVars, serverVars, analyticsVars, crisisVars >>

\* catch (err) { setError(err.message || ...) } finally { setLoading(false) }
failWith(f, message) ==
   /\ error' = [message |-> message]
   /\ loading' = FALSE
   /\ fetches' = returned(f)
   /\ lastCompleted' = "failed"
   /\ UNCHANGED << news, notificationShown, notified >>

\* await fetch(...) rejects
ClientFetchRejects(f) ==
   /\ fetches[f].pc = "fetch"
   /\ failWith(f, "Failed to fetch")
   /\ UNCHANGED << bookmarkVars, textVars, serverVars, analyticsVars, crisisVars >>

\* await fetch(...) resolves, with response.ok or without
ClientFetchResolves(f) ==
   /\ fetches[f].pc = "fetch"
   /\ \E ok \in BOOLEAN : fetches' = [fetches EXCEPT ![f].pc = "json", ![f].ok = ok]
   /\ UNCHANGED << news, error, loading, notificationShown, notified, lastCompleted >>
   /\ UNCHANGED << bookmarkVars, textVars, serverVars, analyticsVars, crisisVars >>

\* await response.json() rejects
ClientJsonRejects(f) ==
   /\ fetches[f].pc = "json"
   /\ failWith(f, "Unexpected token")
   /\ UNCHANGED << bookmarkVars, textVars, serverVars, analyticsVars, crisisVars >>

\* the `if (data.articles)` branch.  When setNotificationShown(true) changes
\* the state, the next render makes a new fetchNews and the polling effect
\* runs again: it calls fetchNews() at once.
showArticles(f, list, notify) ==
   /\ news' = list
   /\ notified' = IF notify THEN notified + 1 ELSE notified
   /\ notificationShown' = (notificationShown \/ notify)
   /\ IF notify /\ ~notificationShown
      THEN /\ fetches' = [fetches EXCEPT ![f] = [pc |-> "fetch", notificationShown |-> TRUE,
                                                 ok |-> FALSE]]
           /\ loading' = TRUE
      ELSE /\ fetches' = returned(f)
           /\ loading' = FALSE
   /\ lastCompleted' = "ok"
   /\ UNCHANGED error

\* highPriorityArticles.length > 0 && !notificationShown, with the
\* notificationShown of the callback that was called
withArticles(f, list) ==
   showArticles(f, list,
                (\E i \in 1..Len(list) : list[i].isPriority) /\ ~fetches[f].notificationShown)

\* the else branch: setError('No news articles found')
withoutArticles(f) ==
   /\ error' = [message |-> "No news articles found"]
   /\ loading' = FALSE
   /\ fetches' = returned(f)
   /\ lastCompleted' = "noArticles"
   /\ UNCHANGED << news, notificationShown, notified >>

\* await response.json() resolves
ClientJsonResolves(f) ==
   /\ fetches[f].pc = "json"
   /\ IF ~fetches[f].ok
      THEN failWith(f, "Failed to fetch news data")
      ELSE \E data \in Bodies :
              IF data.hasArticles THEN withArticles(f, data.articles)
              ELSE withoutArticles(f)
   /\ UNCHANGED << bookmarkVars, textVars, serverVars, analyticsVars, crisisVars >>

NextClient ==
   \/ IntervalFires
   \/ Retry
   \/ \E f \in FetchSlots : ClientFetchRejects(f)
   \/ \E f \in FetchSlots : ClientFetchResolves(f)
   \/ \E f \in FetchSlots : ClientJsonRejects(f)
   \/ \E f \in FetchSlots : ClientJsonResolves(f)

SpecClient == InitClient /\ [][NextClient]_vars

(* ===================== the dashboard client: bookmarks ================== *)

Urls == { "u1", "u2", "u3" }

\* the articles that may be toggled: an url as it came with each refresh
BookmarkArticles == [url : Urls, edition : 1..MaxEditions]

\* toggleBookmark always adding
toggleBookmark_alwaysAdding(currentBookmarks, article) ==
   Append(currentBookmarks, article)

\* the updater function toggleBookmark hands to setBookmarks
toggleBookmark(currentBookmarks, article) ==
   IF \E i \in 1..Len(currentBookmarks) : currentBookmarks[i].url = article.url
   THEN SelectSeq(currentBookmarks, LAMBDA bookmark : bookmark.url # article.url)
   ELSE Append(currentBookmarks, article)

InitBookmarks ==
   /\ BookmarksUnused
   /\ FetchUnused
   /\ ServerAtStart
   /\ apiKey = TRUE
   /\ TextUnused
   /\ AnalyticsUnused
   /\ CrisisUnused

ToggleBookmark ==
   /\ \E article \in BookmarkArticles :
         /\ bookmarks' = toggleBookmark(bookmarks, article)
         /\ twice' = (lastToggled = article)
         /\ beforeTwo' = IF lastToggled = article THEN beforeLast ELSE <<>>
         /\ lastToggled' = article
   /\ beforeLast' = bookmarks
   /\ UNCHANGED << fetchVars, textVars, serverVars, analyticsVars, crisisVars >>

\* Clear All, confirmed in window.confirm
ClearAll ==
   /\ Len(bookmarks) > 0
   /\ bookmarks' = <<>>
   /\ lastToggled' = Null
   /\ beforeLast' = bookmarks
   /\ twice' = FALSE
   /\ beforeTwo' = <<>>
   /\ UNCHANGED << fetchVars, textVars, serverVars, analyticsVars, crisisVars >>

NextBookmarks == ToggleBookmark \/ ClearAll

SpecBookmarks == InitBookmarks /\ [][NextBookmarks]_vars

(* ------------------- properties of the pipeline alone ------------------ *)

\* the article with '' in place of a missing title or description
withEmptyStrings(article) ==
   [article EXCEPT !.title = IF @ = Undefined THEN <<>> ELSE @,
                   !.description = IF @ = Undefined THEN <<>> ELSE @]

\* the annotated list of the articles with '' for every missing field
annotatedWithEmptyStrings ==
   processArticles([i \in 1..Len(rawArticles) |-> withEmptyStrings(rawArticles[i])])

\* C11: an article without title or description gets the category, the
\* priority and the trending keywords it would get with '' in that field, and
\* the call fails only if it fails with '' as well.
C11_MissingFieldAsEmptyString ==
   /\ apc \in {"annotated", "returned", "threw"} =>
         \A i \in 1..Len(articles) :
            /\ articles[i].category = annotatedWithEmptyStrings[i].category
            /\ articles[i].isPriority = annotatedWithEmptyStrings[i].isPriority
   /\ apc = "threw" => calculateAnalyticsThrows(annotatedWithEmptyStrings)
   /\ (apc = "returned" /\ analytics # Null) =>
         analytics.trendingKeywords = trendingKeywords(annotatedWithEmptyStrings)

\* C12: calculateAnalytics returns null for the empty list and a summary for
\* every other list.
C12_NullOnlyForEmpty ==
   apc \in {"returned", "threw"} =>
      /\ apc = "returned"
      /\ (analytics = Null) <=> (Len(articles) = 0)

\* C13: categories has the five keys, each the number of articles of that
\* category; the sentiment counts are those of score > 0, = 0 and < 0; each
\* set of counts sums to the number of articles.
C13_CountsPartition ==
   (apc = "returned" /\ analytics # Null) =>
      /\ DOMAIN analytics.categories = Categories
      /\ \A c \in Categories :
            analytics.categories[c] =
               Cardinality({ i \in 1..Len(articles) : articles[i].category = c })
      /\ analytics.categories.military + analytics.categories.diplomatic
            + analytics.categories.economic + analytics.categories.social
            + analytics.categories.other = Len(articles)
      /\ analytics.sentimentCounts.positive =
            Cardinality({ i \in 1..Len(articles) : articles[i].sentiment > 0 })
      /\ analytics.sentimentCounts.neutral =
            Cardinality({ i \in 1..Len(articles) : articles[i].sentiment = 0 })
      /\ analytics.sentimentCounts.negative =
            Cardinality({ i \in 1..Len(articles) : articles[i].sentiment < 0 })
      /\ analytics.sentimentCounts.positive + analytics.sentimentCounts.neutral
            + analytics.sentimentCounts.negative = Len(articles)

\* a summary with all three sentiments and a category without article
C13_Witness ==
   /\ apc = "returned"
   /\ analytics # Null
   /\ analytics.sentimentCounts.positive > 0
   /\ analytics.sentimentCounts.neutral > 0
   /\ analytics.sentimentCounts.negative > 0
   /\ analytics.categories.social = 0
   /\ analytics.categories.military > 0

\* the calendar days of the articles
articleDays == { formatDate(articles[i].publishedAt) : i \in 1..Len(articles) }

\* C14: timelineData has one entry per calendar day of the articles, in
\* strictly ascending order of day, each counting the articles of its day.
C14_TimelinePerDay ==
   (apc = "returned" /\ analytics # Null) =>
      /\ Len(analytics.timelineData) = Cardinality(articleDays)
      /\ { analytics.timelineData[k].date : k \in 1..Len(analytics.timelineData) }
            = articleDays
      /\ \A k \in 1..(Len(analytics.timelineData) - 1) :
            analytics.timelineData[k].date < analytics.timelineData[k + 1].date
      /\ \A k \in 1..Len(analytics.timelineData) :
            analytics.timelineData[k].count =
               Cardinality({ i \in 1..Len(articles) :
                  formatDate(articles[i].publishedAt) = analytics.timelineData[k].date })

\* newest article first, two days, one of them with two articles
C14_Witness ==
   /\ apc = "returned"
   /\ analytics # Null
   /\ Len(articles) = 3
   /\ articles[1].publishedAt > articles[2].publishedAt
   /\ Len(analytics.timelineData) = 2
   /\ analytics.timelineData[1].count = 2

\* C15 as stated: at most ten entries, counts strictly descending.
C15_StrictlyDescending ==
   (apc = "returned" /\ analytics # Null) =>
      /\ Len(analytics.trendingKeywords) <= 10
      /\ \A k \in 1..(Len(analytics.trendingKeywords) - 1) :
            analytics.trendingKeywords[k].count > analytics.trendingKeywords[k + 1].count

\* C15: trendingKeywords has at most ten entries and its counts never
\* increase from one entry to the next (equal counts may follow each other).
C15_TopTenDescending ==
   (apc = "returned" /\ analytics # Null) =>
      /\ Len(analytics.trendingKeywords) <= 10
      /\ \A k \in 1..(Len(analytics.trendingKeywords) - 1) :
            analytics.trendingKeywords[k].count >= analytics.trendingKeywords[k + 1].count

\* thirteen different words cut to ten, the second and third with equal counts
C15_Witness ==
   /\ apc = "returned"
   /\ analytics # Null
   /\ rawArticles = << headlineArticle, talksArticle >>
   /\ Len(analytics.trendingKeywords) = 10
   /\ analytics.trendingKeywords[1].count > analytics.trendingKeywords[2].count
   /\ analytics.trendingKeywords[2].count = analytics.trendingKeywords[3].count

\* the first article, in input order, whose key is the greatest
firstWithGreatest(keys) ==
   CHOOSE i \in 1..Len(articles) :
      /\ \A j \in 1..Len(articles) : keys[j] <= keys[i]
      /\ \A j \in 1..(i - 1) : keys[j] < keys[i]

\* C16: mostRecent is the first article with the latest publishedAt,
\* mostNegative the first with the lowest sentiment, mostPositive the first
\* with the highest sentiment; none of the three is null.
C16_KeyInsightsExtremes ==
   (apc = "returned" /\ analytics # Null) =>
      LET recent == firstWithGreatest([i \in 1..Len(articles) |-> articles[i].publishedAt])
          negative == firstWithGreatest([i \in 1..Len(articles) |-> -articles[i].sentiment])
          positive == firstWithGreatest([i \in 1..Len(articles) |-> articles[i].sentiment])
      IN  /\ analytics.keyInsights.mostRecent =
                [ title |-> articles[recent].title,
                  date |-> articles[recent].publishedAt,
                  source |-> articles[recent].source.name ]
          /\ analytics.keyInsights.mostNegative =
                [ title |-> articles[negative].title,
                  sentiment |-> articles[negative].sentiment,
                  category |-> articles[negative].category ]
          /\ analytics.keyInsights.mostPositive =
                [ title |-> articles[positive].title,
                  sentiment |-> articles[positive].sentiment,
                  category |-> articles[positive].category ]
          /\ analytics.keyInsights.mostRecent # Null
          /\ analytics.keyInsights.mostNegative # Null
          /\ analytics.keyInsights.mostPositive # Null

\* two articles of different titles tied on publishedAt, two tied on the
\* lowest sentiment
C16_Witness ==
   /\ apc = "returned"
   /\ analytics # Null
   /\ Len(articles) = 3
   /\ articles[1].publishedAt = articles[2].publishedAt
   /\ articles[1].title # articles[2].title
   /\ articles[3].publishedAt < articles[1].publishedAt
   /\ articles[2].sentiment = articles[3].sentiment
   /\ articles[2].title # articles[3].title
   /\ articles[1].sentiment > articles[2].sentiment
   /\ analytics.keyInsights.mostRecent.title = articles[1].title
   /\ analytics.keyInsights.mostNegative.title = articles[2].title

\* the positions of the significant articles
significantPositions ==
   { i \in 1..Len(articles) :
        \/ articles[i].category = "military" /\ articles[i].sentiment < -3
        \/ articles[i].category = "diplomatic" /\ articles[i].sentiment < -4 }

\* the k-th smallest element of a set of positions
kthOf(S, k) == CHOOSE i \in S : Cardinality({ j \in S : j < i }) = k - 1

\* C17: significantEvents lists the articles that are military with
\* sentiment < -3 or diplomatic with sentiment < -4, each once, in input
\* order, however many there are.
C17_SignificantEventsExact ==
   (apc = "returned" /\ analytics # Null) =>
      /\ Len(analytics.significantEvents) = Cardinality(significantPositions)
      /\ \A k \in 1..Len(analytics.significantEvents) :
            /\ analytics.significantEvents[k].url =
                  articles[kthOf(significantPositions, k)].url
            /\ analytics.significantEvents[k].title =
                  articles[kthOf(significantPositions, k)].title
            /\ analytics.significantEvents[k].category =
                  articles[kthOf(significantPositions, k)].category
            /\ analytics.significantEvents[k].sentiment =
                  articles[kthOf(significantPositions, k)].sentiment

\* four events, military and diplomatic in turn
C17_Witness ==
   /\ apc = "returned"
   /\ analytics # Null
   /\ Len(analytics.significantEvents) = 4
   /\ analytics.significantEvents[1].category = "military"
   /\ analytics.significantEvents[2].category = "diplomatic"
   /\ analytics.significantEvents[3].url = analytics.significantEvents[1].url

(* ------------------ properties of assessCrisisLevel alone -------------- *)

\* the recent articles of a category with sentiment < -2
recentNegative(c) ==
   Cardinality({ i \in 1..Len(crisisArticles) :
      /\ crisisArticles[i].category = c
      /\ crisisArticles[i].sentiment < -2
      /\ clock - crisisArticles[i].publishedAt < 48 * MsPerHour })

\* the level the thresholds give for M and D
levelFor(M, D) ==
   CASE M >= 5 \/ M + D >= 8 -> "severe"
     [] ~(M >= 5 \/ M + D >= 8) /\ (M >= 3 \/ M + D >= 5) -> "elevated"
     [] ~(M >= 5 \/ M + D >= 8) /\ ~(M >= 3 \/ M + D >= 5) /\ (M >= 1 \/ D >= 2)
           -> "moderate"
     [] OTHER -> "normal"

\* C18: the level is severe if M >= 5 or M + D >= 8, else elevated if M >= 3
\* or M + D >= 5, else moderate if M >= 1 or D >= 2, else normal; the empty
\* list gives normal.
C18_CrisisThresholds ==
   cpc \in {"assessed", "extended"} =>
      /\ crisisLevel = levelFor(recentNegative("military"), recentNegative("diplomatic"))
      /\ (Len(crisisArticles) = 0 => crisisLevel = "normal")

\* six recent military articles of sentiment -3: severe
C18_Witness ==
   /\ cpc = "assessed"
   /\ Len(crisisArticles) = 6
   /\ \A i \in 1..6 :
         /\ crisisArticles[i].category = "military"
         /\ crisisArticles[i].sentiment = -3
         /\ clock - crisisArticles[i].publishedAt = MsPerHour
   /\ crisisLevel = "severe"

levelRank ==
   [l \in {"normal", "moderate", "elevated", "severe"} |->
      CASE l = "normal" -> 0 [] l = "moderate" -> 1 [] l = "elevated" -> 2
        [] l = "severe" -> 3]

\* C19: the level for a list with one more recent military article of
\* sentiment < -2 is not lower than the level for the list without it.
C19_CrisisMonotonic ==
   cpc = "extended" => levelRank[crisisLevel] >= levelRank[previousLevel]

\* the added article took the level from elevated to severe
C19_Witness ==
   /\ cpc = "extended"
   /\ previousLevel = "elevated"
   /\ crisisLevel = "severe"

\* the articles of a category with sentiment < -2 published in the 48 hours
\* before the evaluation
inWindowNegative(c) ==
   Cardinality({ i \in 1..Len(crisisArticles) :
      /\ crisisArticles[i].category = c
      /\ crisisArticles[i].sentiment < -2
      /\ clock - crisisArticles[i].publishedAt < 48 * MsPerHour
      /\ clock - crisisArticles[i].publishedAt >= 0 })

\* C20: only articles published less than 48 hours before the evaluation,
\* and not after it, count; without such an article the level is normal.
C20_OnlyLast48Hours ==
   cpc \in {"assessed", "extended"} =>
      crisisLevel = levelFor(inWindowNegative("military"), inWindowNegative("diplomatic"))

(* ----------------------- further server properties --------------------- *)

\* C21: once the server accepts requests, no /api/news request ends in the
\* configuration-missing error.
C21_NoKeyErrorPerRequest ==
   \A r \in Requests : req[r].outcome # "noKey"

(* ------------------------ categorizeArticle scores --------------------- *)

\* the number of places of s at which the keyword stands
occurrencesOf(keyword, s) ==
   Cardinality({ i \in 1..(Len(s) - Len(keyword) + 1) :
                    SubSeq(s, i, i + Len(keyword) - 1) = keyword })

RECURSIVE totalOccurrences(_, _, _)
totalOccurrences(keywords, s, n) ==
   IF n = 0 THEN 0
   ELSE totalOccurrences(keywords, s, n - 1) + occurrencesOf(keywords[n], s)

\* the total of each category for a lower-cased text
totalsOf(s) ==
   [i \in 1..4 |->
      totalOccurrences(categoryKeywords[categoryOrder[i]], s,
                       Len(categoryKeywords[categoryOrder[i]]))]

\* the first category of the highest total, other if every total is 0
firstOfHighest(totals) ==
   IF \A i \in 1..4 : totals[i] = 0 THEN "other"
   ELSE categoryOrder[CHOOSE i \in 1..4 :
                         /\ \A j \in 1..4 : totals[j] <= totals[i]
                         /\ \A j \in 1..(i - 1) : totals[j] < totals[i]]

\* C22: categorizeArticle returns the category whose keywords occur most
\* often in the lower-cased text, all occurrences of all its keywords added
\* up, and of several categories with the highest total the first in the
\* order military, diplomatic, economic, social.
C22_HighestTotalFirstInOrder ==
   tpc = "categorized" => category = firstOfHighest(totalsOf(toLowerCase(text)))

\* one military and one diplomatic occurrence: military
C22_Witness ==
   /\ tpc = "categorized"
   /\ totalsOf(toLowerCase(text)) = << 1, 1, 0, 0 >>
   /\ category = "military"

(* --------------------------- trending keywords ------------------------- *)

\* title + ' ' + description of an annotated article, lower-cased
lowerText(a) ==
   toLowerCase(JSString(articles[a].title) \o <<" ">> \o JSString(articles[a].description))

\* the places of s at which a token starts
tokenStarts(s) == { i \in 1..Len(s) : s[i] # " " /\ (i = 1 \/ s[i - 1] = " ") }

\* the token of s that starts at i
tokenAt(s, i) ==
   SubSeq(s, i, CHOOSE j \in i..Len(s) :
                   /\ \A k \in i..j : s[k] # " "
                   /\ (j = Len(s) \/ s[j + 1] = " "))

countable(token) ==
   /\ Len(token) > 3
   /\ token \notin excludedWords
   /\ \E i \in 1..Len(token) : token[i] \notin Digits

\* the countable tokens of all articles, each as << article, place, token >>
countedTokens ==
   UNION { { << a, i, tokenAt(lowerText(a), i) >> : i \in tokenStarts(lowerText(a)) } :
           a \in 1..Len(articles) }

tokensCounted(all) == { o \in all : countable(o[3]) }

frequency(occ, word) == Cardinality({ o \in occ : o[3] = word })

\* the first encounter of a word
firstEncounter(occ, word) ==
   CHOOSE o \in occ :
      /\ o[3] = word
      /\ \A p \in occ : p[3] = word =>
            (o[1] < p[1] \/ (o[1] = p[1] /\ o[2] <= p[2]))

\* word v ranks before word w
ranksBefore(occ, v, w) ==
   \/ frequency(occ, v) > frequency(occ, w)
   \/ /\ frequency(occ, v) = frequency(occ, w)
      /\ \/ firstEncounter(occ, v)[1] < firstEncounter(occ, w)[1]
         \/ /\ firstEncounter(occ, v)[1] = firstEncounter(occ, w)[1]
            /\ firstEncounter(occ, v)[2] < firstEncounter(occ, w)[2]

trendingAsClaimed(listed, occ) ==
   LET words == { o[3] : o \in occ }
       shown == { listed[k].word : k \in 1..Len(listed) }
   IN  /\ Len(listed) = IF Cardinality(words) < 10 THEN Cardinality(words) ELSE 10
       /\ shown \subseteq words
       /\ Cardinality(shown) = Len(listed)
       /\ \A k \in 1..Len(listed) : listed[k].count = frequency(occ, listed[k].word)
       /\ \A k \in 1..(Len(listed) - 1) : ranksBefore(occ, listed[k].word, listed[k + 1].word)
       /\ \A w \in words \ shown :
             \A k \in 1..Len(listed) : ranksBefore(occ, listed[k].word, w)

\* C23: trendingKeywords lists, with their counts, the ten most frequent
\* tokens of length > 3 that are neither stop-words nor numbers, in descending
\* count, of equal counts the token met first coming first and being the one
\* kept at the cut.
C23_TrendingKeywordsRanking ==
   (apc = "returned" /\ analytics # Null) =>
      trendingAsClaimed(analytics.trendingKeywords, tokensCounted(countedTokens))

\* more than ten words, the tenth listed with the count of a word left out
C23_Witness ==
   /\ apc = "returned"
   /\ analytics # Null
   /\ Len(analytics.trendingKeywords) = 10
   /\ \E o \in tokensCounted(countedTokens) :
         /\ \A k \in 1..10 : analytics.trendingKeywords[k].word # o[3]
         /\ frequency(tokensCounted(countedTokens), o[3]) = analytics.trendingKeywords[10].count

(* ------------------------------ timeline ------------------------------- *)

\* the articles of a day and a category
onDay(date, c) ==
   Cardinality({ i \in 1..Len(articles) :
      formatDate(articles[i].publishedAt) = date /\ articles[i].category = c })

\* C24: a timelineData entry has the fields date, count, military,
\* diplomatic, economic, social and no other, the four category fields being
\* the numbers of that day's articles of the category.
C24_TimelineEntryFields ==
   (apc = "returned" /\ analytics # Null) =>
      \A k \in 1..Len(analytics.timelineData) :
         LET entry == analytics.timelineData[k]
         IN  /\ entry.other = "absent"
             /\ entry.military = onDay(entry.date, "military")
             /\ entry.diplomatic = onDay(entry.date, "diplomatic")
             /\ entry.economic = onDay(entry.date, "economic")
             /\ entry.social = onDay(entry.date, "social")

(* ------------------------- the cache under load ------------------------ *)

\* C25: newsCache.lastFetched never decreases, and an entry is never
\* replaced by the result of a request that arrived before its writer.
C25_CacheNeverGoesBack ==
   [][/\ newsCache.lastFetched # Null =>
            /\ newsCache'.lastFetched # Null
            /\ newsCache'.lastFetched.time >= newsCache.lastFetched.time
      /\ (cacheWriter.data # 0 /\ cacheWriter'.data # cacheWriter.data) =>
            cacheWriter'.data > cacheWriter.data]_vars

\* the response for an empty article list
emptyResult == [articles |-> <<>>, analytics |-> Null]

\* C26: a refresh for which the provider sent an empty list is answered 200
\* with {articles: [], analytics: null} and stored under the request's `now`;
\* a request that arrives while that entry is younger than the TTL is
\* answered with it at once, without a fetch.
C26_EmptyListIsARefresh ==
   [][\A r \in Requests :
         /\ (completes(r) /\ req[r].pc = "json" /\ req'[r].outcome = "refreshed"
               /\ req'[r].raw = <<>>) =>
               /\ req'[r].status = 200
               /\ req'[r].body = emptyResult
               /\ newsCache' = [data |-> emptyResult, lastFetched |-> [time |-> req[r].now]]
         /\ (req[r].pc = "idle" /\ req'[r].pc # "idle" /\ newsCache.data = emptyResult
               /\ clock - newsCache.lastFetched.time < TTL) =>
               /\ req'[r].pc = "done"
               /\ req'[r].status = 200
               /\ req'[r].body = emptyResult
               /\ newsCache' = newsCache]_vars

\* the empty result stored by one request and served to the next
C26_Witness ==
   /\ newsCache.data = emptyResult
   /\ \E r \in Requests : req[r].outcome = "refreshed" /\ req[r].raw = <<>>
   /\ \E r \in Requests :
         /\ req[r].outcome = "hit"
         /\ req[r].body = emptyResult
         /\ req[r].now > newsCache.lastFetched.time

\* C27: a request whose article list reached the pipeline is answered 200
\* and its result is in the cache, also when an article has no source.
C27_MissingSourceTolerated ==
   \A r \in Requests :
      (req[r].pc = "done" /\ req[r].outcome \in {"refreshed", "threw"}) =>
         /\ req[r].status = 200
         /\ DOMAIN req[r].body = {"articles", "analytics"}

(* --------------------------- the dashboard client ---------------------- *)

\* C28: when the call of fetchNews that returned last got an article list,
\* the 'Error Loading Data' screen is not displayed.
C28_SuccessClearsErrorScreen ==
   lastCompleted = "ok" => ~errorScreen

\* C29: showNotification is called at most once in a page session.
C29_NotifiedAtMostOnce == notified <= 1

bookmarkUrls(list) == { list[i].url : i \in 1..Len(list) }

noSharedUrl(list) == \A i, j \in 1..Len(list) : list[i].url = list[j].url => i = j

\* C30 as stated: no two bookmarks share an url, and after two successive
\* toggles of one article the list is the one before the first.
C30_ToggleTwiceRestoresList ==
   /\ noSharedUrl(bookmarks)
   /\ twice => bookmarks = beforeTwo

\* C30: no two bookmarks share an url; after two successive toggles of one
\* article the same urls are bookmarked as before the first, and the list
\* itself is the one before the first if the url was not bookmarked then.
C30_ToggleTwiceRestoresUrls ==
   /\ noSharedUrl(bookmarks)
   /\ twice =>
         /\ bookmarkUrls(bookmarks) = bookmarkUrls(beforeTwo)
         /\ lastToggled.url \notin bookmarkUrls(beforeTwo) => bookmarks = beforeTwo

\* the first of two bookmarks toggled twice: it is the last now
C30_Witness ==
   /\ twice
   /\ Len(beforeTwo) = 2
   /\ beforeTwo[1].url = lastToggled.url
   /\ Len(bookmarks) = 2
   /\ bookmarks[2] = lastToggled
   /\ bookmarks[1] = beforeTwo[2]
====
